---- MODULE Spec2Model ----
(***************************************************************************)
(* A model of universion.UniVersion: the value model (__eq__, __hash__,    *)
(* __lt__), the canonical codec, the JSON-LD codec and the multi-standard  *)
(* parser.  Strings are sequences of one-character strings, so formatting  *)
(* and parsing are computed character by character.                        *)
(***************************************************************************)
EXTENDS Integers, Sequences, FiniteSets, TLC

(***************************************************************************)
(* Bounds of the model.                                                    *)
(***************************************************************************)
\* release tuples used in the inputs have 1..MaxRelLen components
MaxRelLen == 4
\* pre/post/dev numbers used in the inputs range over 0..MaxNum
MaxNum == 1

(***************************************************************************)
(* Characters and strings.                                                 *)
(***************************************************************************)
DigitChars == <<"0", "1", "2", "3", "4", "5", "6", "7", "8", "9">>
LowerChars == <<"a", "b", "c", "d", "e", "f", "g", "h", "i", "j", "k", "l", "m",
                "n", "o", "p", "q", "r", "s", "t", "u", "v", "w", "x", "y", "z">>
UpperChars == <<"A", "B", "C", "D", "E", "F", "G", "H", "I", "J", "K", "L", "M",
                "N", "O", "P", "Q", "R", "S", "T", "U", "V", "W", "X", "Y", "Z">>

Range(f) == {f[i] : i \in DOMAIN f}
Digits == Range(DigitChars)
Lowers == Range(LowerChars)
Uppers == Range(UpperChars)
IsDigit(c) == c \in Digits
IsLower(c) == c \in Lowers
IsUpper(c) == c \in Uppers
IndexOf(c, tbl) == CHOOSE i \in DOMAIN tbl : tbl[i] = c
DigitVal(c) == IndexOf(c, DigitChars) - 1

\* the code point of a character (ASCII)
Ord(c) ==
    IF IsDigit(c) THEN 47 + IndexOf(c, DigitChars)
    ELSE IF IsUpper(c) THEN 64 + IndexOf(c, UpperChars)
    ELSE IF IsLower(c) THEN 96 + IndexOf(c, LowerChars)
    ELSE IF c = "!" THEN 33
    ELSE IF c = "+" THEN 43
    ELSE IF c = "-" THEN 45
    ELSE IF c = "." THEN 46
    ELSE 95

\* str.lower() on one character and on a string
LowerChar(c) == IF IsUpper(c) THEN LowerChars[IndexOf(c, UpperChars)] ELSE c
Lower(s) == [i \in DOMAIN s |-> LowerChar(s[i])]

\* s[i:j] in Python's 0-based half-open slicing
Slice(s, i, j) == IF j <= i THEN <<>> ELSE SubSeq(s, i + 1, j)

\* str(n) for a non-negative integer
RECURSIVE Str(_)
Str(n) == IF n < 10 THEN <<DigitChars[n + 1]>>
          ELSE Str(n \div 10) \o <<DigitChars[(n % 10) + 1]>>

\* int(s) for a non-empty string of digits
RECURSIVE Int10(_)
Int10(s) == IF Len(s) = 0 THEN 0
            ELSE 10 * Int10(SubSeq(s, 1, Len(s) - 1)) + DigitVal(s[Len(s)])

\* sep.join(parts)
RECURSIVE Join(_, _)
Join(sep, parts) ==
    IF Len(parts) = 0 THEN <<>>
    ELSE IF Len(parts) = 1 THEN parts[1]
    ELSE parts[1] \o sep \o Join(sep, Tail(parts))

\* re.split on a set of one-character separators; s.split(sep) is the case of
\* one separator
RECURSIVE SplitAny(_, _)
SplitAny(s, seps) ==
    IF \A k \in DOMAIN s : s[k] \notin seps THEN <<s>>
    ELSE LET k == CHOOSE k \in DOMAIN s : s[k] \in seps /\ \A m \in 1..(k - 1) : s[m] \notin seps
         IN <<SubSeq(s, 1, k - 1)>> \o SplitAny(SubSeq(s, k + 1, Len(s)), seps)

Split(s, sep) == SplitAny(s, {sep})

\* s.isdigit()
IsDigitString(s) == Len(s) > 0 /\ \A k \in DOMAIN s : s[k] \in Digits

(***************************************************************************)
(* Optional values: None is the empty sequence, a present value v is <<v>>.*)
(***************************************************************************)
None == <<>>
Some(v) == <<v>>
IsNone(o) == Len(o) = 0
Val(o) == o[1]

\* Python truth value of an optional integer, string or tuple
TruthyNum(o) == ~IsNone(o) /\ Val(o) # 0
TruthySeq(o) == ~IsNone(o) /\ Len(Val(o)) > 0

(***************************************************************************)
(* Regular expressions (module re): a pattern is a tree of nodes, and a    *)
(* match attempt yields, in the order a backtracking matcher tries them,   *)
(* the states (position, groups) in which the pattern can end.  The first  *)
(* of them is the match.                                                   *)
(***************************************************************************)
Node(k, str, set, items, name) ==
    [k |-> k, str |-> str, set |-> set, items |-> items, name |-> name]
Lit(str) == Node("lit", str, {}, <<>>, "")             \* the characters of str
Cls(set) == Node("cls", <<>>, set, <<>>, "")           \* one character of set
End == Node("end", <<>>, {}, <<>>, "")                 \* $
Cat(items) == Node("cat", <<>>, {}, items, "")         \* r1 r2 ...
Alt(items) == Node("alt", <<>>, {}, items, "")         \* r1 | r2 | ...
Opt(r) == Node("opt", <<>>, {}, <<r>>, "")             \* r?
Star(r) == Node("star", <<>>, {}, <<r>>, "")           \* r*
Plus(r) == Node("plus", <<>>, {}, <<r>>, "")           \* r+
Grp(name, r) == Node("grp", <<>>, {}, <<r>>, name)     \* (?P<name>r)

GroupNames == {"release", "prerelease", "post", "dev", "local", "label", "num",
               "epoch", "pre_l", "pre_n", "post_n1", "post_l", "post_n2", "dev_l", "dev_n",
               "major", "minor", "patch", "build"}

RECURSIVE Run(_, _, _), RunEach(_, _, _), RunCat(_, _, _), RunAlt(_, _, _)
RunEach(re, s, sts) ==
    IF Len(sts) = 0 THEN <<>> ELSE Run(re, s, Head(sts)) \o RunEach(re, s, Tail(sts))
RunCat(items, s, sts) ==
    IF Len(items) = 0 THEN sts ELSE RunCat(Tail(items), s, RunEach(Head(items), s, sts))
RunAlt(items, s, st) ==
    IF Len(items) = 0 THEN <<>> ELSE Run(Head(items), s, st) \o RunAlt(Tail(items), s, st)
Run(re, s, st) ==
    CASE re.k = "lit" ->
            IF /\ st.pos + Len(re.str) <= Len(s)
               /\ \A k \in 1..Len(re.str) : s[st.pos + k] = re.str[k]
            THEN <<[st EXCEPT !.pos = @ + Len(re.str)]>> ELSE <<>>
      [] re.k = "cls" ->
            IF st.pos < Len(s) /\ s[st.pos + 1] \in re.set
            THEN <<[st EXCEPT !.pos = @ + 1]>> ELSE <<>>
      [] re.k = "end" -> IF st.pos = Len(s) THEN <<st>> ELSE <<>>
      [] re.k = "cat" -> RunCat(re.items, s, <<st>>)
      [] re.k = "alt" -> RunAlt(re.items, s, st)
      [] re.k = "opt" -> Run(re.items[1], s, st) \o <<st>>
      [] re.k = "star" ->
            LET Further(t) == t.pos > st.pos
            IN RunEach(re, s, SelectSeq(Run(re.items[1], s, st), Further)) \o <<st>>
      [] re.k = "plus" -> RunEach(Star(re.items[1]), s, Run(re.items[1], s, st))
      [] re.k = "grp" ->
            LET ends == Run(re.items[1], s, st)
            IN [i \in DOMAIN ends |->
                    [ends[i] EXCEPT !.groups[re.name] = Some(Slice(s, st.pos, ends[i].pos))]]

\* pattern.match(s): whether it matched, and match.group(name) for every name
\* (None for a group that took no part in the match)
FirstOf(ends) ==
    IF Len(ends) = 0 THEN [matched |-> FALSE, groups |-> [g \in GroupNames |-> None]]
    ELSE [matched |-> TRUE, groups |-> ends[1].groups]

Match(pattern, s) ==
    FirstOf(Run(pattern, s, [pos |-> 0, groups |-> [g \in GroupNames |-> None]]))

AnyChar == Digits \cup Lowers \cup Uppers \cup {"!", "+", "-", ".", "_"}
Number == Plus(Cls(Digits))

(***************************************************************************)
(* The value model.                                                        *)
(***************************************************************************)
\* UniVersion.__init__: a Version is the record of its six attributes;
\* prerelease is an optional pair <<label, number>>
UniVersion(release, prerelease, postrelease, devrelease, local, original) ==
    [release |-> release, prerelease |-> prerelease, postrelease |-> postrelease,
     devrelease |-> devrelease, local |-> local, original |-> original]

\* the outcome of an operation that returns a Version or raises
Returned(v) == [ok |-> TRUE, ver |-> Some(v), err |-> ""]
Raised(e) == [ok |-> FALSE, ver |-> None, err |-> e]

\* the exceptions the operations raise (all ValueError, told apart by their
\* message) and the TypeError of a comparison between a str and a float
ErrPep440 == "Invalid PEP 440 version"
ErrSemVer == "Invalid SemVer"
ErrCanonical == "Invalid canonical version"
ErrSchema == "Unsupported universion version"
ErrIncomparable == "Cannot confidently order versions with differing local metadata"
ErrType == "TypeError"

\* an __eq__ that leaves local out of the comparison
EqIgnoringLocal(a, b) ==
    /\ a.release = b.release
    /\ a.prerelease = b.prerelease
    /\ a.postrelease = b.postrelease
    /\ a.devrelease = b.devrelease

\* UniVersion.__eq__
Eq(a, b) ==
    /\ a.release = b.release
    /\ a.prerelease = b.prerelease
    /\ a.postrelease = b.postrelease
    /\ a.devrelease = b.devrelease
    /\ a.local = b.local

(***************************************************************************)
(* hash(): the builtin is abstracted to a deterministic fold over the      *)
(* value it is given, computed modulo HashModulus.                         *)
(***************************************************************************)
HashModulus == 8191
HashOfNone == 4238

RECURSIVE HashStr(_)
HashStr(s) == IF Len(s) = 0 THEN 7
              ELSE (31 * HashStr(SubSeq(s, 1, Len(s) - 1)) + Ord(s[Len(s)])) % HashModulus

HashInt(n) == n % HashModulus

\* the hash of a tuple from the hashes of its items
RECURSIVE HashTuple(_)
HashTuple(hs) == IF Len(hs) = 0 THEN 3527
                 ELSE (31 * HashTuple(SubSeq(hs, 1, Len(hs) - 1)) + hs[Len(hs)]) % HashModulus

HashOptInt(o) == IF IsNone(o) THEN HashOfNone ELSE HashInt(Val(o))
HashOptStr(o) == IF IsNone(o) THEN HashOfNone ELSE HashStr(Val(o))
HashOptPre(o) == IF IsNone(o) THEN HashOfNone
                 ELSE HashTuple(<<HashStr(Val(o)[1]), HashInt(Val(o)[2])>>)
HashRelease(r) == HashTuple([i \in DOMAIN r |-> HashInt(r[i])])

\* a __hash__ that also hashes the original string
HashWithOriginal(v) ==
    HashTuple(<<HashRelease(v.release), HashOptPre(v.prerelease), HashOptInt(v.postrelease),
                HashOptInt(v.devrelease), HashOptStr(v.local), HashOptStr(v.original)>>)

\* UniVersion.__hash__
Hash(v) ==
    HashTuple(<<HashRelease(v.release), HashOptPre(v.prerelease), HashOptInt(v.postrelease),
                HashOptInt(v.devrelease), HashOptStr(v.local)>>)

(***************************************************************************)
(* Python's ordering of the values an ordering tuple is made of: int,      *)
(* float('inf'), str and tuple.                                            *)
(***************************************************************************)
PyInt(n) == [t |-> "int", n |-> n, s |-> <<>>, items |-> <<>>]
PyInf == [t |-> "float", n |-> 0, s |-> <<>>, items |-> <<>>]
PyStr(s) == [t |-> "str", n |-> 0, s |-> s, items |-> <<>>]
PyTuple(items) == [t |-> "tuple", n |-> 0, s |-> <<>>, items |-> items]

IsNumber(a) == a.t \in {"int", "float"}

\* s < u for two strings: lexicographic by code point
RECURSIVE StrLt(_, _)
StrLt(s, u) ==
    IF Len(u) = 0 THEN FALSE
    ELSE IF Len(s) = 0 THEN TRUE
    ELSE IF s[1] # u[1] THEN Ord(s[1]) < Ord(u[1])
    ELSE StrLt(Tail(s), Tail(u))

\* a == b never raises; an int is never equal to float('inf')
PyEq(a, b) == a = b

\* a < b: "true", "false", or "TypeError" when the operand types have no order
RECURSIVE PyLt(_, _)
PyLt(a, b) ==
    IF IsNumber(a) /\ IsNumber(b) THEN
        IF a.t = "float" THEN "false"
        ELSE IF b.t = "float" THEN "true"
        ELSE IF a.n < b.n THEN "true" ELSE "false"
    ELSE IF a.t = "str" /\ b.t = "str" THEN
        IF StrLt(a.s, b.s) THEN "true" ELSE "false"
    ELSE IF a.t = "tuple" /\ b.t = "tuple" THEN
        LET n == IF Len(a.items) < Len(b.items) THEN Len(a.items) ELSE Len(b.items)
            diff == {i \in 1..n : ~PyEq(a.items[i], b.items[i])}
        IN IF diff = {} THEN (IF Len(a.items) < Len(b.items) THEN "true" ELSE "false")
           ELSE LET i == CHOOSE i \in diff : \A j \in diff : i <= j
                IN PyLt(a.items[i], b.items[i])
    ELSE ErrType

\* UniVersion._prerelease_key
PrereleaseKey(prerelease) ==
    IF IsNone(prerelease) THEN PyTuple(<<PyInf>>)
    ELSE PyTuple(<<PyStr(Val(prerelease)[1]), PyInt(Val(prerelease)[2])>>)

\* UniVersion._ordering_tuple
OrderingTuple(v) ==
    PyTuple(<<PyTuple([i \in DOMAIN v.release |-> PyInt(v.release[i])]),
              PrereleaseKey(v.prerelease),
              IF ~IsNone(v.postrelease) THEN PyInt(Val(v.postrelease)) ELSE PyInt(-1),
              IF ~IsNone(v.devrelease) THEN PyInt(Val(v.devrelease)) ELSE PyInf>>)

\* a __lt__ that compares the ordering tuples before it looks at local
LtWithoutLocalCheck(a, b) == PyLt(OrderingTuple(a), OrderingTuple(b))

\* UniVersion.__lt__: "true", "false", or the exception raised
Lt(a, b) ==
    IF a.local # b.local THEN ErrIncomparable
    ELSE PyLt(OrderingTuple(a), OrderingTuple(b))

(***************************************************************************)
(* The canonical codec.                                                    *)
(***************************************************************************)
\* UniVersion.to_canonical_string
ToCanonicalString(v) ==
    LET head == Join(<<".">>, [i \in DOMAIN v.release |-> Str(v.release[i])])
        first == IF TruthySeq(v.prerelease) THEN head \o <<"-">> \o Val(v.prerelease)[1] \o Str(Val(v.prerelease)[2])
                 ELSE head
        post == IF ~IsNone(v.postrelease)
                THEN <<<<"p", "o", "s", "t">> \o Str(Val(v.postrelease))>> ELSE <<>>
        dev == IF ~IsNone(v.devrelease)
               THEN <<<<"d", "e", "v">> \o Str(Val(v.devrelease))>> ELSE <<>>
        canonical == Join(<<".">>, <<first>> \o post \o dev)
    IN IF TruthySeq(v.local) THEN canonical \o <<"+">> \o Val(v.local) ELSE canonical

\* UniVersion.CANONICAL_VERSION_REGEX
CANONICAL_VERSION_REGEX ==
    Cat(<<Grp("release", Cat(<<Number, Cat(<<Lit(<<".">>), Number>>),
                               Opt(Cat(<<Lit(<<".">>), Number>>))>>)),
          Opt(Cat(<<Lit(<<"-">>),
                    Grp("prerelease", Cat(<<Plus(Cls(Lowers)), Star(Cls(Digits))>>))>>)),
          Opt(Cat(<<Lit(<<".", "p", "o", "s", "t">>), Grp("post", Number)>>)),
          Opt(Cat(<<Lit(<<".", "d", "e", "v">>), Grp("dev", Number)>>)),
          Opt(Cat(<<Lit(<<"+">>), Grp("local", Plus(Cls(AnyChar)))>>)),
          End>>)

\* tuple(map(int, text.split(".")))
ReleaseOf(text) == LET parts == Split(text, ".") IN [i \in DOMAIN parts |-> Int10(parts[i])]

\* re.match(r"([a-z]+)(\d*)", text) and the (label, num) made of its groups
LabelAndNumberOf(m) ==
    <<Val(m.groups.label), IF TruthySeq(m.groups.num) THEN Int10(Val(m.groups.num)) ELSE 0>>

LabelAndNumber(text) ==
    LabelAndNumberOf(
        Match(Cat(<<Grp("label", Plus(Cls(Lowers))), Grp("num", Star(Cls(Digits)))>>), text))

\* UniVersion.from_canonical_string, from the match on
FromCanonicalMatch(match) ==
    IF ~match.matched THEN Raised(ErrCanonical)
    ELSE Returned(UniVersion(
            ReleaseOf(Val(match.groups.release)),
            IF TruthySeq(match.groups.prerelease)
            THEN Some(LabelAndNumber(Val(match.groups.prerelease))) ELSE None,
            IF TruthySeq(match.groups.post) THEN Some(Int10(Val(match.groups.post))) ELSE None,
            IF TruthySeq(match.groups.dev) THEN Some(Int10(Val(match.groups.dev))) ELSE None,
            IF TruthySeq(match.groups.local) THEN match.groups.local ELSE None,
            None))

\* UniVersion.from_canonical_string
FromCanonicalString(version_string) ==
    FromCanonicalMatch(Match(CANONICAL_VERSION_REGEX, version_string))

(***************************************************************************)
(* The JSON-LD codec.                                                      *)
(***************************************************************************)
UNIVERSION_VERSION == "1.0.0"
UNIVERSION_CONTEXT == "https://gitlab.com/willynilly/universion/-/raw/main/src/universion/context/v1.0.0.jsonld"
UNIVERSION_TYPE == "UniVersion"

\* UniVersion.to_jsonld (the keys @context and @type are named context and type)
ToJsonld(v) ==
    [context |-> UNIVERSION_CONTEXT,
     type |-> UNIVERSION_TYPE,
     universion |-> UNIVERSION_VERSION,
     release |-> v.release,
     prerelease |-> IF TruthySeq(v.prerelease) THEN v.prerelease ELSE None,
     postrelease |-> v.postrelease,
     devrelease |-> v.devrelease,
     local |-> v.local]

\* a loader that reads postrelease and devrelease by their truth value
FromJsonldV1ByTruth(data) ==
    UniVersion(data.release,
               IF TruthySeq(data.prerelease) THEN data.prerelease ELSE None,
               IF TruthyNum(data.postrelease) THEN data.postrelease ELSE None,
               IF TruthyNum(data.devrelease) THEN data.devrelease ELSE None,
               data.local, None)

\* UniVersion._from_jsonld_v1_0_0
FromJsonldV1(data) ==
    UniVersion(data.release,
               IF TruthySeq(data.prerelease) THEN data.prerelease ELSE None,
               data.postrelease, data.devrelease, data.local, None)

\* UniVersion.from_jsonld
FromJsonld(data) ==
    IF data.universion = "1.0.0" THEN Returned(FromJsonldV1(data))
    ELSE Raised(ErrSchema)

(***************************************************************************)
(* packaging.version.Version, the PEP 440 parser from_pep_440 delegates    *)
(* to: the match of its pattern (case-insensitive, so taken on the         *)
(* lower-cased string) and the normalised properties release, pre, post,   *)
(* dev and local.  Surrounding whitespace is not modelled.                 *)
(***************************************************************************)
Separators == {"-", "_", "."}
LocalChars == Lowers \cup Digits
Sep == Opt(Cls(Separators))

\* packaging.version.VERSION_PATTERN, anchored
VERSION_PATTERN ==
    Cat(<<Opt(Lit(<<"v">>)),
          Opt(Cat(<<Grp("epoch", Number), Lit(<<"!">>)>>)),
          Grp("release", Cat(<<Number, Star(Cat(<<Lit(<<".">>), Number>>))>>)),
          Opt(Cat(<<Sep,
                    Grp("pre_l", Alt(<<Lit(<<"a", "l", "p", "h", "a">>), Lit(<<"a">>),
                                       Lit(<<"b", "e", "t", "a">>), Lit(<<"b">>),
                                       Lit(<<"p", "r", "e", "v", "i", "e", "w">>),
                                       Lit(<<"p", "r", "e">>), Lit(<<"c">>), Lit(<<"r", "c">>)>>)),
                    Sep, Opt(Grp("pre_n", Number))>>)),
          Opt(Alt(<<Cat(<<Lit(<<"-">>), Grp("post_n1", Number)>>),
                    Cat(<<Sep,
                          Grp("post_l", Alt(<<Lit(<<"p", "o", "s", "t">>),
                                              Lit(<<"r", "e", "v">>), Lit(<<"r">>)>>)),
                          Sep, Opt(Grp("post_n2", Number))>>)>>)),
          Opt(Cat(<<Sep, Grp("dev_l", Lit(<<"d", "e", "v">>)), Sep, Opt(Grp("dev_n", Number))>>)),
          Opt(Cat(<<Lit(<<"+">>),
                    Grp("local", Cat(<<Plus(Cls(LocalChars)),
                                       Star(Cat(<<Cls(Separators), Plus(Cls(LocalChars))>>))>>))>>)),
          End>>)

\* the letter a pre-release spelling is normalised to
PreLetter(label) ==
    IF label \in {<<"a", "l", "p", "h", "a">>, <<"a">>} THEN <<"a">>
    ELSE IF label \in {<<"b", "e", "t", "a">>, <<"b">>} THEN <<"b">>
    ELSE IF label \in {<<"c">>, <<"p", "r", "e">>, <<"p", "r", "e", "v", "i", "e", "w">>}
         THEN <<"r", "c">>
    ELSE IF label \in {<<"r", "e", "v">>, <<"r">>} THEN <<"p", "o", "s", "t">>
    ELSE label

\* packaging's _parse_letter_version: the optional pair (letter, number)
ParseLetterVersion(letter, number) ==
    IF TruthySeq(letter)
    THEN Some(<<PreLetter(Val(letter)), IF IsNone(number) THEN 0 ELSE Int10(Val(number))>>)
    ELSE IF TruthySeq(number) THEN Some(<<<<"p", "o", "s", "t">>, Int10(Val(number))>>)
    ELSE None

\* the second item of an optional pair
NumberOf(pair) == IF IsNone(pair) THEN None ELSE Some(Val(pair)[2])

\* a local version as the property reports it: its parts joined by ".",
\* an all-digit part read as an integer
NormalLocal(s) ==
    LET parts == SplitAny(s, Separators)
    IN Join(<<".">>, [k \in DOMAIN parts |->
            IF IsDigitString(parts[k]) THEN Str(Int10(parts[k])) ELSE parts[k]])

\* the properties release, pre, post, dev and local of a Pep440Version, from
\* the groups of its match
Pep440Properties(g) ==
    IF IsNone(g.release)
    THEN [valid |-> FALSE, release |-> <<>>, pre |-> None, post |-> None,
          dev |-> None, local |-> None]
    ELSE [valid |-> TRUE,
          release |-> ReleaseOf(Val(g.release)),
          pre |-> ParseLetterVersion(g.pre_l, g.pre_n),
          post |-> NumberOf(ParseLetterVersion(
                       g.post_l, IF TruthySeq(g.post_n1) THEN g.post_n1 ELSE g.post_n2)),
          dev |-> NumberOf(ParseLetterVersion(g.dev_l, g.dev_n)),
          local |-> IF IsNone(g.local) THEN None ELSE Some(NormalLocal(Val(g.local)))]

\* Pep440Version(version_string): whether the string is valid, and its properties
Pep440Version(version_string) ==
    Pep440Properties(Match(VERSION_PATTERN, Lower(version_string)).groups)

\* UniVersion.from_pep_440, from the parsed Pep440Version v on
FromPep440Version(v) ==
    IF ~v.valid THEN Raised(ErrPep440)
    ELSE Returned(UniVersion(v.release,
                             IF TruthySeq(v.pre) THEN v.pre ELSE None,
                             IF TruthyNum(v.post) THEN v.post ELSE None,
                             IF TruthyNum(v.dev) THEN v.dev ELSE None,
                             IF TruthySeq(v.local) THEN v.local ELSE None,
                             None))

\* UniVersion.from_pep_440
FromPep440(version_string) == FromPep440Version(Pep440Version(version_string))

(***************************************************************************)
(* semver.Version.parse, the SemVer parser from_sem_ver delegates to.      *)
(***************************************************************************)
IdentChars == Digits \cup Lowers \cup Uppers \cup {"-"}

\* "0|[1-9]\d*"
NumericIdent == Alt(<<Lit(<<"0">>), Cat(<<Cls(Digits \ {"0"}), Star(Cls(Digits))>>)>>)

\* "0|[1-9]\d*|\d*[a-zA-Z-][0-9a-zA-Z-]*"
PrereleaseIdent ==
    Alt(<<Lit(<<"0">>), Cat(<<Cls(Digits \ {"0"}), Star(Cls(Digits))>>),
          Cat(<<Star(Cls(Digits)), Cls(IdentChars \ Digits), Star(Cls(IdentChars))>>)>>)

\* semver.Version._REGEX
SEMVER_REGEX ==
    Cat(<<Grp("major", NumericIdent), Lit(<<".">>),
          Grp("minor", NumericIdent), Lit(<<".">>),
          Grp("patch", NumericIdent),
          Opt(Cat(<<Lit(<<"-">>),
                    Grp("prerelease",
                        Cat(<<PrereleaseIdent, Star(Cat(<<Lit(<<".">>), PrereleaseIdent>>))>>))>>)),
          Opt(Cat(<<Lit(<<"+">>),
                    Grp("build",
                        Cat(<<Plus(Cls(IdentChars)),
                              Star(Cat(<<Lit(<<".">>), Plus(Cls(IdentChars))>>))>>))>>)),
          End>>)

\* the attributes of a semver.Version, from the groups of its match
SemVerAttributes(g) ==
    IF IsNone(g.major)
    THEN [valid |-> FALSE, major |-> 0, minor |-> 0, patch |-> 0,
          prerelease |-> None, build |-> None]
    ELSE [valid |-> TRUE,
          major |-> Int10(Val(g.major)),
          minor |-> Int10(Val(g.minor)),
          patch |-> Int10(Val(g.patch)),
          prerelease |-> g.prerelease,
          build |-> g.build]

\* semver.Version.parse(version_string)
SemVerParse(version_string) == SemVerAttributes(Match(SEMVER_REGEX, version_string).groups)

\* UniVersion._SEMVER_TO_PEP440_PRERELEASE.get(label, label)
SemVerToPep440Prerelease(label) ==
    IF label = <<"a", "l", "p", "h", "a">> THEN <<"a">>
    ELSE IF label = <<"b", "e", "t", "a">> THEN <<"b">>
    ELSE IF label = <<"r", "c">> THEN <<"r", "c">>
    ELSE label

\* UniVersion.from_sem_ver, from the parsed semver.Version sv on
FromSemVerVersion(sv) ==
    IF ~sv.valid THEN Raised(ErrSemVer)
    ELSE LET release == <<sv.major, sv.minor, sv.patch>>
             prerelease_parts == IF TruthySeq(sv.prerelease)
                                 THEN Split(Val(sv.prerelease), ".") ELSE <<>>
             prerelease ==
                 IF TruthySeq(sv.prerelease)
                 THEN Some(<<SemVerToPep440Prerelease(Lower(prerelease_parts[1])),
                             IF Len(prerelease_parts) > 1 /\ IsDigitString(prerelease_parts[2])
                             THEN Int10(prerelease_parts[2]) ELSE 0>>)
                 ELSE None
             local == IF TruthySeq(sv.build) THEN sv.build ELSE None
         IN Returned(UniVersion(release, prerelease, None, None, local, None))

\* UniVersion.from_sem_ver
FromSemVer(version_string) == FromSemVerVersion(SemVerParse(version_string))

\* try: return first / except ValueError: try: return second / except
\* ValueError: return third -- the standards consulted, in order, and the
\* Version returned or the exception that leaves the chain
TryInOrder(names, first, second, third) ==
    IF first.ok THEN [tried |-> <<names[1]>>, result |-> first]
    ELSE IF second.ok THEN [tried |-> <<names[1], names[2]>>, result |-> second]
    ELSE [tried |-> names, result |-> third]

\* a parse that tries SemVer before PEP 440
ParseSemVerFirst(version_string) ==
    TryInOrder(<<"semver", "pep440", "canonical">>, FromSemVer(version_string),
               FromPep440(version_string), FromCanonicalString(version_string))

\* UniVersion.parse
Parse(version_string) ==
    TryInOrder(<<"pep440", "semver", "canonical">>, FromPep440(version_string),
               FromSemVer(version_string), FromCanonicalString(version_string))

(***************************************************************************)
(* A set literal of Versions: an item is added unless the set holds an     *)
(* item with the same hash that is equal to it.  The set is kept as the    *)
(* sequence of its items in insertion order.                               *)
(***************************************************************************)
SetAdd(items, v) ==
    IF \E k \in DOMAIN items : Hash(items[k]) = Hash(v) /\ Eq(items[k], v)
    THEN items ELSE Append(items, v)

RECURSIVE SetOf(_)
SetOf(vs) == IF Len(vs) = 0 THEN <<>>
             ELSE SetAdd(SetOf(SubSeq(vs, 1, Len(vs) - 1)), vs[Len(vs)])

(***************************************************************************)
(* The version strings the operations are applied to.                      *)
(***************************************************************************)
Dotted(release) == Join(<<".">>, [i \in DOMAIN release |-> Str(release[i])])
Base == <<"1", ".", "2", ".", "3">>
Nums == 0..MaxNum

ReleaseInputs ==
    {Dotted([i \in 1..n |-> i]) : n \in 1..MaxRelLen}
        \cup {<<"1", ".", "2", ".", "4">>, <<"1", ".", "0", "2">>}

NumberedInputs ==
    UNION {{Base \o <<"a">> \o Str(n),
            Base \o <<"-", "a", "l", "p", "h", "a", ".">> \o Str(n),
            Base \o <<"-", "x">> \o Str(n),
            Base \o <<"-", "x", ".">> \o Str(n),
            <<"1", ".", "2", "-", "x">> \o Str(n),
            Base \o <<".", "p", "o", "s", "t">> \o Str(n),
            Base \o <<".", "d", "e", "v">> \o Str(n),
            Base \o <<"a", "1", ".", "p", "o", "s", "t">> \o Str(n),
            Base \o <<"a", "1", ".", "d", "e", "v">> \o Str(n),
            Base \o <<"-", "a", "1", ".", "p", "o", "s", "t">> \o Str(n)
                 \o <<".", "d", "e", "v">> \o Str(n) \o <<"+", "a", "b", "c">>}
           : n \in Nums}

LocalInputs ==
    {Base \o <<"+", "a", "b", "c">>, Base \o <<"+", "x", "y", "z">>,
     Base \o <<"a", "1", "+", "a", "b", "c">>, Base \o <<"a", "1", "+", "x", "y", "z">>,
     Base \o <<"+", "a", "!", "b">>}

OtherInputs == {Base \o <<"-", "X", ".", "1">>, <<"x">>}

Inputs == ReleaseInputs \cup NumberedInputs \cup LocalInputs \cup OtherInputs

\* the strings the second Version is parsed from
SecondInputs == ReleaseInputs \cup LocalInputs

\* the schema versions a record handed to from_jsonld is stamped with
SchemaVersions == {"1.0.0", "2.0.0"}

\* the four entry points of the parser, each tabulated over the inputs
Standards == {"parse", "from_pep_440", "from_sem_ver", "from_canonical_string"}

ParseOf == [s \in Inputs |-> Parse(s)]
FromPep440Of == [s \in Inputs |-> [tried |-> <<"pep440">>, result |-> FromPep440(s)]]
FromSemVerOf == [s \in Inputs |-> [tried |-> <<"semver">>, result |-> FromSemVer(s)]]
FromCanonicalStringOf ==
    [s \in Inputs |-> [tried |-> <<"canonical">>, result |-> FromCanonicalString(s)]]

Call(via, s) ==
    IF via = "parse" THEN ParseOf[s]
    ELSE IF via = "from_pep_440" THEN FromPep440Of[s]
    ELSE IF via = "from_sem_ver" THEN FromSemVerOf[s]
    ELSE FromCanonicalStringOf[s]

(***************************************************************************)
(* The state: two version strings, the Versions x and y obtained so far,   *)
(* and the record of the last operation.                                   *)
(***************************************************************************)
VARIABLES
    in1, in2,   \* the version strings x and y are parsed from
    x, y,       \* optional Versions
    xvia,       \* the entry point that returned x
    op,         \* the last operation
    who,        \* the register it wrote (parsers, decoders) or took as self
    arg,        \* its string argument
    tried,      \* the standards it consulted, in order
    err,        \* the exception it raised, "" if it returned
    ret,        \* the truth value it returned: "true", "false" or ""
    out,        \* the canonical string it returned
    rec,        \* the JSON-LD record it returned or was given
    hashes,     \* <<hash(x), hash(y)>>
    vset        \* the set {x, y}

vars == <<in1, in2, x, y, xvia, op, who, arg, tried, err, ret, out, rec, hashes, vset>>

Init ==
    /\ in1 \in Inputs
    /\ in2 \in SecondInputs
    /\ x = None /\ y = None /\ xvia = ""
    /\ op = "" /\ who = 0 /\ arg = <<>> /\ tried = <<>> /\ err = "" /\ ret = ""
    /\ out = None /\ rec = None /\ hashes = <<>> /\ vset = <<>>

\* what an operation leaves of the record of the one before
NoParse == arg' = <<>> /\ tried' = <<>>
NoValues == ret' = "" /\ out' = None /\ rec' = None /\ hashes' = <<>> /\ vset' = <<>>

\* x = UniVersion.<via>(in1)
ParseFirst(via) ==
    \E r \in {Call(via, in1)} :
    /\ op' = via /\ who' = 1 /\ arg' = in1
    /\ tried' = r.tried /\ err' = r.result.err
    /\ x' = IF r.result.ok THEN r.result.ver ELSE x
    /\ xvia' = IF r.result.ok THEN via ELSE xvia
    /\ NoValues
    /\ UNCHANGED <<in1, in2, y>>

\* y = UniVersion.parse(in2)
ParseSecond ==
    \E r \in {ParseOf[in2]} :
    /\ op' = "parse" /\ who' = 2 /\ arg' = in2
    /\ tried' = r.tried /\ err' = r.result.err
    /\ y' = IF r.result.ok THEN r.result.ver ELSE y
    /\ NoValues
    /\ UNCHANGED <<in1, in2, x, xvia>>

\* y = UniVersion(x.release, ..., original)
Construct(original) ==
    /\ ~IsNone(x)
    /\ op' = "__init__" /\ who' = 2 /\ err' = ""
    /\ y' = Some(UniVersion(Val(x).release, Val(x).prerelease, Val(x).postrelease,
                            Val(x).devrelease, Val(x).local, original))
    /\ NoParse /\ NoValues
    /\ UNCHANGED <<in1, in2, x, xvia>>

\* canonical = x.to_canonical_string()
ToCanonicalStringOp ==
    /\ ~IsNone(x)
    /\ op' = "to_canonical_string" /\ who' = 1 /\ err' = ""
    /\ out' = Some(ToCanonicalString(Val(x)))
    /\ ret' = "" /\ rec' = None /\ hashes' = <<>> /\ vset' = <<>>
    /\ NoParse
    /\ UNCHANGED <<in1, in2, x, y, xvia>>

\* y = UniVersion.from_canonical_string(canonical)
FromCanonicalStringOp ==
    /\ ~IsNone(out)
    /\ \E r \in {FromCanonicalString(Val(out))} :
        /\ op' = "from_canonical_string" /\ who' = 2 /\ arg' = Val(out)
        /\ tried' = <<"canonical">> /\ err' = r.err
        /\ y' = IF r.ok THEN r.ver ELSE y
    /\ NoValues
    /\ UNCHANGED <<in1, in2, x, xvia>>

\* data = x.to_jsonld()
ToJsonldOp ==
    /\ ~IsNone(x)
    /\ op' = "to_jsonld" /\ who' = 1 /\ err' = ""
    /\ rec' = Some(ToJsonld(Val(x)))
    /\ ret' = "" /\ out' = None /\ hashes' = <<>> /\ vset' = <<>>
    /\ NoParse
    /\ UNCHANGED <<in1, in2, x, y, xvia>>

\* y = UniVersion.from_jsonld(data), data stamped with a schema version
FromJsonldOp(universion) ==
    /\ ~IsNone(rec)
    /\ \E data \in {[Val(rec) EXCEPT !.universion = universion]} :
       \E r \in {FromJsonld(data)} :
          /\ op' = "from_jsonld" /\ who' = 2 /\ err' = r.err
          /\ rec' = Some(data)
          /\ y' = IF r.ok THEN r.ver ELSE y
    /\ ret' = "" /\ out' = None /\ hashes' = <<>> /\ vset' = <<>>
    /\ NoParse
    /\ UNCHANGED <<in1, in2, x, xvia>>

\* the two operands of a comparison whose left operand is register self
Self(self) == IF self = 1 THEN Val(x) ELSE Val(y)
Other(self) == IF self = 1 THEN Val(y) ELSE Val(x)

\* x == y
EqOp ==
    /\ ~IsNone(x) /\ ~IsNone(y)
    /\ op' = "__eq__" /\ who' = 1 /\ err' = ""
    /\ ret' = IF Eq(Val(x), Val(y)) THEN "true" ELSE "false"
    /\ out' = None /\ rec' = None /\ hashes' = <<>> /\ vset' = <<>>
    /\ NoParse
    /\ UNCHANGED <<in1, in2, x, y, xvia>>

\* x < y (self = 1) or y < x (self = 2)
LtOp(self) ==
    /\ ~IsNone(x) /\ ~IsNone(y)
    /\ \E r \in {Lt(Self(self), Other(self))} :
        /\ op' = "__lt__" /\ who' = self
        /\ ret' = IF r \in {"true", "false"} THEN r ELSE ""
        /\ err' = IF r \in {"true", "false"} THEN "" ELSE r
    /\ out' = None /\ rec' = None /\ hashes' = <<>> /\ vset' = <<>>
    /\ NoParse
    /\ UNCHANGED <<in1, in2, x, y, xvia>>

\* hash(x), hash(y)
HashOp ==
    /\ ~IsNone(x) /\ ~IsNone(y)
    /\ op' = "__hash__" /\ who' = 1 /\ err' = ""
    /\ hashes' = <<Hash(Val(x)), Hash(Val(y))>>
    /\ ret' = "" /\ out' = None /\ rec' = None /\ vset' = <<>>
    /\ NoParse
    /\ UNCHANGED <<in1, in2, x, y, xvia>>

\* {x, y}
SetOp ==
    /\ ~IsNone(x) /\ ~IsNone(y)
    /\ op' = "set" /\ who' = 1 /\ err' = ""
    /\ vset' = SetOf(<<Val(x), Val(y)>>)
    /\ ret' = "" /\ out' = None /\ rec' = None /\ hashes' = <<>>
    /\ NoParse
    /\ UNCHANGED <<in1, in2, x, y, xvia>>

Next ==
    \/ \E via \in Standards : ParseFirst(via)
    \/ ParseSecond
    \/ \E original \in {None, Some(in1)} : Construct(original)
    \/ ToCanonicalStringOp
    \/ FromCanonicalStringOp
    \/ ToJsonldOp
    \/ \E universion \in SchemaVersions : FromJsonldOp(universion)
    \/ EqOp
    \/ \E self \in {1, 2} : LtOp(self)
    \/ HashOp
    \/ SetOp

Spec == Init /\ [][Next]_vars

(***************************************************************************)
(* Properties.                                                             *)
(***************************************************************************)
\* the Version the last parser or decoder wrote
Result == IF who = 1 THEN x ELSE y

\* field-wise equality over (release, prerelease, postrelease, devrelease, local)
SameFields(a, b) ==
    /\ a.release = b.release
    /\ a.prerelease = b.prerelease
    /\ a.postrelease = b.postrelease
    /\ a.devrelease = b.devrelease
    /\ a.local = b.local

\* the Versions the combined parse produces from the inputs
ParsedVersions == {Val(ParseOf[s].result.ver) : s \in {s \in Inputs : ParseOf[s].result.ok}}

\* C1: for every Version x the combined parse produced, decoding the
\* canonical string of x returns, and returns a Version equal to x.
CanonicalRoundTrip ==
    (/\ op = "from_canonical_string" /\ who = 2
     /\ xvia = "parse" /\ arg = ToCanonicalString(Val(x)))
        => (err = "" /\ ~IsNone(y) /\ Eq(Val(y), Val(x)))

\* C2: with equal local and equal release, a Version with a prerelease
\* compares less than one without, and the one without is not less than it;
\* neither comparison raises.
PrereleaseBeforeRelease ==
    (/\ op = "__lt__"
     /\ Self(who).local = Other(who).local
     /\ Self(who).release = Other(who).release)
        => /\ (~IsNone(Self(who).prerelease) /\ IsNone(Other(who).prerelease))
                => (err = "" /\ ret = "true")
           /\ (IsNone(Self(who).prerelease) /\ ~IsNone(Other(who).prerelease))
                => (err = "" /\ ret = "false")

\* C3: a comparison a < b of two Versions whose local fields differ raises
\* the incomparable-versions error and returns no truth value, whatever the
\* other fields are.
DifferingLocalIsIncomparable ==
    (op = "__lt__" /\ Self(who).local # Other(who).local)
        => (err = ErrIncomparable /\ ret = "")

DifferingLocalWitness ==
    /\ op = "__lt__" /\ err = ErrIncomparable
    /\ IsNone(Self(who).local) /\ ~IsNone(Other(who).local)
    /\ Self(who).release # Other(who).release
    /\ Self(who).prerelease # Other(who).prerelease

\* b is a with exactly one number increased: one release component, the
\* prerelease number, the postrelease number or the devrelease number
BumpsOne(a, b) ==
    \/ /\ [a EXCEPT !.release = b.release] = b
       /\ Len(a.release) = Len(b.release)
       /\ \E i \in DOMAIN a.release :
            /\ a.release[i] < b.release[i]
            /\ \A j \in DOMAIN a.release \ {i} : a.release[j] = b.release[j]
    \/ /\ [a EXCEPT !.prerelease = b.prerelease] = b
       /\ ~IsNone(a.prerelease) /\ ~IsNone(b.prerelease)
       /\ Val(a.prerelease)[1] = Val(b.prerelease)[1]
       /\ Val(a.prerelease)[2] < Val(b.prerelease)[2]
    \/ /\ [a EXCEPT !.postrelease = b.postrelease] = b
       /\ ~IsNone(a.postrelease) /\ ~IsNone(b.postrelease)
       /\ Val(a.postrelease) < Val(b.postrelease)
    \/ /\ [a EXCEPT !.devrelease = b.devrelease] = b
       /\ ~IsNone(a.devrelease) /\ ~IsNone(b.devrelease)
       /\ Val(a.devrelease) < Val(b.devrelease)

\* C4: among Versions with equal local every comparison returns, and < is
\* a strict weak ordering (irreflexive, asymmetric, transitive, with
\* transitive incomparability) under which increasing one number yields a
\* greater Version.
StrictWeakOrdering ==
    (op = "__lt__" /\ Self(who).local = Other(who).local)
        => LET a == Self(who)
               b == Other(who)
           IN /\ err = ""
              /\ Lt(a, a) = "false"
              /\ ret = "true" => Lt(b, a) = "false"
              /\ BumpsOne(a, b) => ret = "true"
              /\ \A c \in {c \in ParsedVersions : c.local = a.local} :
                    /\ (ret = "true" /\ Lt(b, c) = "true") => Lt(a, c) = "true"
                    /\ (/\ ret = "false" /\ Lt(b, a) = "false"
                        /\ Lt(b, c) = "false" /\ Lt(c, b) = "false")
                            => (Lt(a, c) = "false" /\ Lt(c, a) = "false")

\* C5: x == y is true exactly when release, prerelease, postrelease,
\* devrelease and local are equal by value; original has no part in it.
EqualityIsFieldWise ==
    op = "__eq__"
        => /\ err = ""
           /\ ret = "true" <=> SameFields(Val(x), Val(y))
           /\ ret = "false" <=> ~SameFields(Val(x), Val(y))

EqualityWitness ==
    /\ op = "__eq__" /\ ret = "true"
    /\ Val(x).original # Val(y).original
    /\ ~IsNone(Val(x).local)

\* C6: decoding the JSON-LD record of a Version x returns a Version equal
\* to x, whichever of its optional fields are present.
JsonldRoundTrip ==
    (op = "from_jsonld" /\ Val(rec) = ToJsonld(Val(x)))
        => (err = "" /\ ~IsNone(y) /\ Eq(Val(y), Val(x)))

JsonldWitness ==
    /\ op = "from_jsonld" /\ err = "" /\ Val(rec) = ToJsonld(Val(x))
    /\ ~IsNone(Val(x).prerelease)
    /\ Val(x).postrelease = Some(0)
    /\ Val(x).devrelease = Some(0)
    /\ ~IsNone(Val(x).local)
    /\ Val(y).postrelease = Some(0)

\* C7: Versions that agree on the five fields have equal hashes, however
\* each was obtained, and the set {x, y} has one element per equality class.
HashAgreesWithEquality ==
    /\ op = "__hash__" => (SameFields(Val(x), Val(y)) => hashes[1] = hashes[2])
    /\ op = "set" => Len(vset) = (IF SameFields(Val(x), Val(y)) THEN 1 ELSE 2)

HashWitness ==
    /\ op = "__hash__"
    /\ SameFields(Val(x), Val(y))
    /\ Val(x).original # Val(y).original
    /\ hashes[1] = hashes[2]

\* C8: when the PEP 440 interpretation succeeds, postrelease and devrelease
\* are the post and dev numbers the PEP 440 parser reports, 0 included.
Pep440NumbersMappedDirectly ==
    (/\ op = "from_pep_440" \/ (op = "parse" /\ tried = <<"pep440">>)
     /\ err = "")
        => \A v \in {Pep440Version(arg)} :
              /\ Val(Result).postrelease = v.post
              /\ Val(Result).devrelease = v.dev

\* C9: every Version a parser entry point returns has a release of at
\* least two non-negative integers.
ReleaseHasTwoComponents ==
    (op \in Standards /\ err = "")
        => /\ Len(Val(Result).release) >= 2
           /\ \A i \in DOMAIN Val(Result).release : Val(Result).release[i] >= 0

\* C10: parse consults PEP 440, then SemVer, then canonical, returns what
\* the first standard that accepts the string returns without consulting
\* the later ones, and raises (the canonical error) exactly when all three
\* reject the string.
ParseFallbackOrder ==
    op = "parse"
        => \A p \in {FromPep440Of[arg].result},
              s \in {FromSemVerOf[arg].result},
              c \in {FromCanonicalStringOf[arg].result} :
              /\ p.ok => (tried = <<"pep440">> /\ err = "" /\ Result = p.ver)
              /\ (~p.ok /\ s.ok)
                    => (tried = <<"pep440", "semver">> /\ err = "" /\ Result = s.ver)
              /\ (~p.ok /\ ~s.ok /\ c.ok)
                    => (/\ tried = <<"pep440", "semver", "canonical">>
                        /\ err = "" /\ Result = c.ver)
              /\ err # "" <=> (~p.ok /\ ~s.ok /\ ~c.ok)
              /\ err # "" => (err = ErrCanonical
                              /\ tried = <<"pep440", "semver", "canonical">>)

ParseFallbackWitness ==
    /\ op = "parse" /\ err = ""
    /\ tried = <<"pep440", "semver", "canonical">>
    /\ ~IsNone(Result)

====
